---- MODULE Spec2Model ----
(***************************************************************************)
(* A state-machine model of faiss::gpu::GpuIndexIVFPQ                      *)
(* (src/gpu/GpuIndexIVFPQ.cu): the host-side object that owns an optional  *)
(* device engine (IVFPQ* index_), validates its configuration, trains,     *)
(* imports from / exports to a CPU IndexIVFPQ, and dispatches add/search.  *)
(*                                                                         *)
(* A FAISS_THROW_* is a C++ exception: the call ends with err = "throw"    *)
(* and the object lives on with whatever the call had already written.     *)
(* A failed FAISS_ASSERT calls abort(): the process ends (pc = "aborted"). *)
(***************************************************************************)
EXTENDS Integers, Sequences, FiniteSets, TLC

\* index_ == nullptr
NULL == [nullptr |-> TRUE]

\* faiss::MetricType
METRIC_L2 == "METRIC_L2"
METRIC_INNER_PRODUCT == "METRIC_INNER_PRODUCT"

\* faiss::gpu::IndicesOptions
INDICES_CPU == "INDICES_CPU"
INDICES_IVF == "INDICES_IVF"
INDICES_32_BIT == "INDICES_32_BIT"
INDICES_64_BIT == "INDICES_64_BIT"

\* ---------------------------------------------------------------- bounds
\* largest vector coordinate a caller passes to add / search
MaxVec == 2
\* most vectors in one add call
MaxAdd == 1
\* cap on the total number of stored vectors (guards add)
MaxTotal == 2
\* largest k of a search
MaxK == 2

\* ------------------------------------------------------ program constants
\* "Bits per code must be <= 8"
MaxBitsPerCode == 8
\* sizeof(float), sizeof(half)
SizeofFloat == 4
SizeofHalf == 2
\* the build defines FAISS_USE_FLOAT16 (half lookup tables can be selected)
FAISS_USE_FLOAT16 == TRUE

Pow2(b) == 2 ^ b

Min(a, b) == IF a <= b THEN a ELSE b

RECURSIVE SumSeq(_)
SumSeq(s) == IF s = <<>> THEN 0 ELSE Head(s) + SumSeq(Tail(s))

\* ------------------------------------------------------------------ state
VARIABLES
    pc,                 \* "init" (members initialised, ctor body pending),
                        \* "live", "rejected" (ctor threw), "aborted"
    d, metric_type, is_trained, ntotal,       \* faiss::Index fields
    nlist_, nprobe_, quantizer_,              \* GpuIndexIVF fields
    ivfpqConfig_, subQuantizers_, bitsPerCode_, reserveMemoryVecs_, index_,
    smem,               \* getMaxSharedMemPerBlock(device_)
    mirror,             \* the faiss::IndexIVFPQ of the caller's last copyTo; the
                        \* caller keeps it until its next call other than copyTo
    lastOp, args, err, ret  \* the last call, its arguments, how it ended,
                            \* what it returned

vars == <<pc, d, metric_type, is_trained, ntotal, nlist_, nprobe_, quantizer_,
          ivfpqConfig_, subQuantizers_, bitsPerCode_, reserveMemoryVecs_,
          index_, smem, mirror, lastOp, args, err, ret>>

\* the fields of the GpuIndexIVFPQ object itself
obj == <<d, metric_type, is_trained, ntotal, nlist_, nprobe_, quantizer_,
         ivfpqConfig_, subQuantizers_, bitsPerCode_, reserveMemoryVecs_,
         index_>>

\* --------------------------------------------------------- verifySettings_
\* IVFPQ::isSupportedPQCodeLength
SupportedPQCodeLengths == {1, 2, 3, 4, 8, 12, 16, 20, 24, 28, 32, 40, 48, 56, 64, 96}
isSupportedPQCodeLength(size) == size \in SupportedPQCodeLengths

\* IVFPQ::isSupportedNoPrecomputedSubDimSize
SupportedNoPrecomputedSubDimSizes == {1, 2, 3, 4, 6, 8, 10, 12, 16, 20, 24, 28, 32}
isSupportedNoPrecomputedSubDimSize(dims) == dims \in SupportedNoPrecomputedSubDimSizes

lookupTableSize(cfg) ==
    IF FAISS_USE_FLOAT16 /\ cfg.useFloat16LookupTables THEN SizeofHalf ELSE SizeofFloat

requiredSmemSize(cfg, M, B) == lookupTableSize(cfg) * M * Pow2(B)

\* The first FAISS_THROW_IF_NOT_* of verifySettings_ that fails, "ok" if none.
verifySettings_NoNlistCheck(nl, B, D, M, cfg, metric, smemPerBlock) ==
    IF ~(B <= MaxBitsPerCode) THEN "bitsPerCode"
    ELSE IF ~(D % M = 0) THEN "divisor"
    ELSE IF ~isSupportedPQCodeLength(M) THEN "codeLength"
    ELSE IF ~(requiredSmemSize(cfg, M, B) <= smemPerBlock) THEN "smem"
    ELSE IF ~(cfg.usePrecomputedTables \/ isSupportedNoPrecomputedSubDimSize(D \div M))
         THEN "subDim"
    ELSE IF ~(metric = METRIC_L2) THEN "metric"
    ELSE "ok"

verifySettings_DivisorFirst(nl, B, D, M, cfg, metric, smemPerBlock) ==
    IF ~(nl > 0) THEN "nlist"
    ELSE IF ~(D % M = 0) THEN "divisor"
    ELSE IF ~(B <= MaxBitsPerCode) THEN "bitsPerCode"
    ELSE IF ~isSupportedPQCodeLength(M) THEN "codeLength"
    ELSE IF ~(requiredSmemSize(cfg, M, B) <= smemPerBlock) THEN "smem"
    ELSE IF ~(cfg.usePrecomputedTables \/ isSupportedNoPrecomputedSubDimSize(D \div M))
         THEN "subDim"
    ELSE IF ~(metric = METRIC_L2) THEN "metric"
    ELSE "ok"

verifySettings_(nl, B, D, M, cfg, metric, smemPerBlock) ==
    IF ~(nl > 0) THEN "nlist"
    ELSE IF ~(B <= MaxBitsPerCode) THEN "bitsPerCode"
    ELSE IF ~(D % M = 0) THEN "divisor"
    ELSE IF ~isSupportedPQCodeLength(M) THEN "codeLength"
    ELSE IF ~(requiredSmemSize(cfg, M, B) <= smemPerBlock) THEN "smem"
    ELSE IF ~(cfg.usePrecomputedTables \/ isSupportedNoPrecomputedSubDimSize(D \div M))
         THEN "subDim"
    ELSE IF ~(metric = METRIC_L2) THEN "metric"
    ELSE "ok"

\* ------------------------------------------------------------ host mirror
\* A faiss::IndexIVFPQ as this file reads and writes it.  oversize is the set
\* of lists whose ids.size() exceeds std::numeric_limits<int>::max() (such a
\* list is not materialised entry by entry).
EmptyLists(nl) == [i \in 1..nl |-> <<>>]

BlankHost ==
    [d |-> 4, nlist |-> 2, nprobe |-> 1, metric_type |-> METRIC_L2,
     is_trained |-> FALSE, ntotal |-> 0, quantizer_ntotal |-> 0,
     pq |-> [M |-> 2, nbits |-> 1, byte_per_idx |-> 1, centroids |-> <<0>>],
     by_residual |-> TRUE, polysemous_ht |-> 0, use_precomputed_table |-> 0,
     code_size |-> 2, codes |-> EmptyLists(2), ids |-> EmptyLists(2),
     oversize |-> {}]

\* faiss::IndexIVFPQ(): what a caller passes to copyTo
DefaultHost ==
    [d |-> 0, nlist |-> 0, nprobe |-> 1, metric_type |-> METRIC_L2,
     is_trained |-> TRUE, ntotal |-> 0, quantizer_ntotal |-> 0,
     pq |-> [M |-> 0, nbits |-> 0, byte_per_idx |-> 0, centroids |-> <<>>],
     by_residual |-> TRUE, polysemous_ht |-> 0, use_precomputed_table |-> 0,
     code_size |-> 0, codes |-> <<>>, ids |-> <<>>, oversize |-> {}]

\* ------------------------------------------------- device engine (IVFPQ)
\* The accelerator-resident engine behind index_.  lists[i + 1] is inverted
\* list i: its raw code bytes (M per entry) and its ids.
NewIVFPQ(nl, M, B, centroids, opts) ==
    [lists |-> [i \in 1..nl |-> [codes |-> <<>>, ids |-> <<>>]],
     M |-> M, B |-> B, pqCentroids |-> centroids, indicesOptions |-> opts,
     precomputedCodes |-> FALSE, reserved |-> 0]

EngineListLength(e, listId) == Len(e.lists[listId + 1].codes) \div e.M
EngineListCodes(e, listId) == e.lists[listId + 1].codes
EngineListIndices(e, listId) == e.lists[listId + 1].ids
EngineTotal(e) == SumSeq([i \in 1..Len(e.lists) |-> EngineListLength(e, i - 1)])

\* IVFPQ::addCodeVectorsFromCpu(listId, codes, indices, numVecs): append the
\* first numVecs encoded vectors and their ids (ids are not kept under
\* INDICES_IVF).
addCodeVectorsFromCpu(e, listId, codes, indices, numVecs) ==
    [e EXCEPT !.lists[listId + 1] =
        [codes |-> @.codes \o SubSeq(codes, 1, numVecs * e.M),
         ids |-> IF e.indicesOptions = INDICES_IVF THEN @.ids
                 ELSE @.ids \o SubSeq(indices, 1, numVecs)]]

\* A vector is one coordinate 0..MaxVec, or NaN.  Coarse centroid i sits at
\* i * 2^B; a code byte is the residual to it.
NaN == -1
Vecs == 0..MaxVec
isValid(v) == v # NaN
CoarseAssign(e, v) == Min(v \div Pow2(e.B), Len(e.lists) - 1)
EncodeResidual(e, v) ==
    LET r == Min(v - CoarseAssign(e, v) * Pow2(e.B), Pow2(e.B) - 1)
    IN [j \in 1..e.M |-> r]
Decode(e, listId, code) == listId * Pow2(e.B) + code[1]

\* IVFPQ::classifyAndAddVectors(vecs, indices): every valid vector is encoded
\* and appended to its nearest list; returns the engine and the number added.
RECURSIVE classifyAndAddVectors(_, _, _)
classifyAndAddVectors(e, vecs, indices) ==
    IF vecs = <<>> THEN [e |-> e, added |-> 0]
    ELSE LET v == Head(vecs)
             e1 == IF isValid(v)
                   THEN addCodeVectorsFromCpu(e, CoarseAssign(e, v),
                                              EncodeResidual(e, v), <<Head(indices)>>, 1)
                   ELSE e
             rest == classifyAndAddVectors(e1, Tail(vecs), Tail(indices))
         IN [e |-> rest.e, added |-> rest.added + (IF isValid(v) THEN 1 ELSE 0)]

EngineReset(e) ==
    [e EXCEPT !.lists = [i \in 1..Len(e.lists) |-> [codes |-> <<>>, ids |-> <<>>]]]

EngineReserveMemory(e, numVecs) == [e EXCEPT !.reserved = numVecs]

EngineSetPrecomputedCodes(e, enable) == [e EXCEPT !.precomputedCodes = enable]

\* IVFPQ::reclaimMemory: shrink to fit; bytes freed, contents untouched.
EngineReclaimBytes(e) ==
    IF e.reserved > EngineTotal(e) THEN (e.reserved - EngineTotal(e)) * e.M ELSE 0
EngineReclaimMemory(e) == [e EXCEPT !.reserved = 0]

\* ------------------------------------------------------------ construction
\* GpuIndexIVFPQ(resources, dims, nlist, subQuantizers, bitsPerCode, metric,
\* config): the member initialisers have run, the body has not.
InitMembers(D, nl, M, B, metric, cfg, smemPerBlock) ==
    /\ pc = "init"
    /\ d = D /\ metric_type = metric /\ is_trained = FALSE /\ ntotal = 0
    /\ nlist_ = nl /\ nprobe_ = 1
    /\ quantizer_ = [is_trained |-> TRUE, ntotal |-> 0]
    /\ ivfpqConfig_ = cfg
    /\ subQuantizers_ = M /\ bitsPerCode_ = B
    /\ reserveMemoryVecs_ = 0 /\ index_ = NULL
    /\ smem = smemPerBlock
    /\ mirror = DefaultHost
    /\ lastOp = "none" /\ args = <<>> /\ err = "ok" /\ ret = "none"

Configs(pre, opts, f16) ==
    [usePrecomputedTables : pre, indicesOptions : opts, useFloat16LookupTables : f16]

\* The constructor body: verifySettings_, the metric assertion, is_trained.
Construct ==
    /\ pc = "init"
    /\ LET v == verifySettings_(nlist_, bitsPerCode_, d, subQuantizers_,
                                ivfpqConfig_, metric_type, smem)
       IN /\ lastOp' = "construct" /\ args' = <<>>
          /\ ret' = v
          /\ IF v # "ok"
             THEN /\ pc' = "rejected" /\ err' = "throw"
                  /\ UNCHANGED is_trained
             ELSE /\ pc' = "live" /\ err' = "ok"
                  /\ is_trained' = FALSE
    /\ UNCHANGED <<d, metric_type, ntotal, nlist_, nprobe_, quantizer_,
                   ivfpqConfig_, subQuantizers_, bitsPerCode_,
                   reserveMemoryVecs_, index_, smem, mirror>>

\* ---------------------------------------------- specification: verify only
WideDims == {4, 5, 6, 8, 64}
WideNList == {0, 1, 4}
WideSubQuantizers == {1, 2, 3, 4, 5, 8, 64}
WideBits == {0, 4, 8, 9}
WideSmem == {64, 4096, 49152}

InitVerify ==
    \E D \in WideDims, nl \in WideNList, M \in WideSubQuantizers,
       B \in WideBits, metric \in {METRIC_L2, METRIC_INNER_PRODUCT},
       cfg \in Configs(BOOLEAN, {INDICES_CPU}, BOOLEAN), s \in WideSmem :
        InitMembers(D, nl, M, B, metric, cfg, s)

NextVerify == Construct

SpecVerify == InitVerify /\ [][NextVerify]_vars

\* C1 (as stated): verify() accepts iff D % M = 0, B <= 8, M supported, the
\* scratch requirement fits, (precomputed tables or D/M supported) and the
\* metric is squared Euclidean.
C1_AsStated ==
    lastOp = "construct" =>
        ((err = "ok") <=>
            /\ d % subQuantizers_ = 0
            /\ bitsPerCode_ <= 8
            /\ subQuantizers_ \in SupportedPQCodeLengths
            /\ lookupTableSize(ivfpqConfig_) * subQuantizers_ * Pow2(bitsPerCode_) <= smem
            /\ (ivfpqConfig_.usePrecomputedTables
                \/ (d \div subQuantizers_) \in SupportedNoPrecomputedSubDimSizes)
            /\ metric_type = METRIC_L2)

\* C1 (amended): verify() accepts iff nlist > 0 and all of the above.
C1_VerifyIff ==
    lastOp = "construct" =>
        ((err = "ok") <=>
            /\ nlist_ > 0
            /\ d % subQuantizers_ = 0
            /\ bitsPerCode_ <= 8
            /\ subQuantizers_ \in SupportedPQCodeLengths
            /\ lookupTableSize(ivfpqConfig_) * subQuantizers_ * Pow2(bitsPerCode_) <= smem
            /\ (ivfpqConfig_.usePrecomputedTables
                \/ (d \div subQuantizers_) \in SupportedNoPrecomputedSubDimSizes)
            /\ metric_type = METRIC_L2)

\* a configuration with nlist > 0 that verify accepted, and one it rejected
\* for the scratch budget alone
C1_Witness ==
    /\ lastOp = "construct" /\ err = "ok" /\ pc = "live"
    /\ subQuantizers_ = 8 /\ bitsPerCode_ = 8 /\ smem = 4096
    /\ ivfpqConfig_.useFloat16LookupTables

\* ------------------------------------------------------------ the object
\* The object's fields as one record, so that a method is an operator from
\* the fields before the call to [s: the fields after, out: how the call
\* ended ("ok", "throw", "abort"), ret: what it returned].
Self ==
    [d |-> d, metric_type |-> metric_type, is_trained |-> is_trained,
     ntotal |-> ntotal, nlist_ |-> nlist_, nprobe_ |-> nprobe_,
     quantizer_ |-> quantizer_, ivfpqConfig_ |-> ivfpqConfig_,
     subQuantizers_ |-> subQuantizers_, bitsPerCode_ |-> bitsPerCode_,
     reserveMemoryVecs_ |-> reserveMemoryVecs_, index_ |-> index_]

Result(s, out, r) == [s |-> s, out |-> out, ret |-> r]

\* Write back a call's result; an abort ends the process.
Returns(op, a, result) ==
    \E r \in {result} :
        /\ d' = r.s.d /\ metric_type' = r.s.metric_type
        /\ is_trained' = r.s.is_trained /\ ntotal' = r.s.ntotal
        /\ nlist_' = r.s.nlist_ /\ nprobe_' = r.s.nprobe_
        /\ quantizer_' = r.s.quantizer_ /\ ivfpqConfig_' = r.s.ivfpqConfig_
        /\ subQuantizers_' = r.s.subQuantizers_ /\ bitsPerCode_' = r.s.bitsPerCode_
        /\ reserveMemoryVecs_' = r.s.reserveMemoryVecs_ /\ index_' = r.s.index_
        /\ lastOp' = op /\ args' = a /\ err' = r.out /\ ret' = r.ret
        /\ pc' = IF r.out = "abort" THEN "aborted" ELSE "live"
        /\ mirror' = DefaultHost
        /\ UNCHANGED smem

verify(s, smemPerBlock) ==
    verifySettings_(s.nlist_, s.bitsPerCode_, s.d, s.subQuantizers_,
                    s.ivfpqConfig_, s.metric_type, smemPerBlock)

\* ------------------------------------------------------------------ train
\* samples per sub-centroid kept for PQ training
PQTrainPointsPerCentroid == 64

\* GpuIndexIVF::trainQuantizer_: the coarse quantizer ends with nlist_
\* centroids, trained on all n vectors.
trainQuantizer_(s, n) ==
    [s EXCEPT !.quantizer_ = [is_trained |-> TRUE, ntotal |-> s.nlist_]]

\* n = std::min(n, (1 << bitsPerCode_) * 64): the first PQSampleCount vectors
\* of x are used from here on
PQSampleCount_NoCap(n, B) == n

PQSampleCount(n, B) == Min(n, Pow2(B) * PQTrainPointsPerCentroid)

\* faiss::ProductQuantizer::train on the residuals: the centroid tensor,
\* a function of the training data (seed names the data set).
PQTrain(n, seed) == <<seed>>

\* alloc is how device allocation goes during the call: "ok", or the call
\* that fails, "engine" (new IVFPQ) or "reserve" (index_->reserveMemory); the
\* failure propagates to the caller of train.  The result's ret lists the
\* steps taken, in order.
trainResidualQuantizer_NoReserve(s, n, seed, alloc) ==
    LET e0 == NewIVFPQ(s.nlist_, s.subQuantizers_, s.bitsPerCode_,
                       PQTrain(PQSampleCount(n, s.bitsPerCode_), seed),
                       s.ivfpqConfig_.indicesOptions)
    IN IF alloc = "engine" THEN Result(s, "throw", "alloc")
       ELSE Result([s EXCEPT !.index_ =
                        EngineSetPrecomputedCodes(e0, s.ivfpqConfig_.usePrecomputedTables)],
                   "ok", <<"pq.train", "new IVFPQ", "setPrecomputedCodes">>)

trainResidualQuantizer_(s, n, seed, alloc) ==
    LET e0 == NewIVFPQ(s.nlist_, s.subQuantizers_, s.bitsPerCode_,
                       PQTrain(PQSampleCount(n, s.bitsPerCode_), seed),
                       s.ivfpqConfig_.indicesOptions)
    IN IF alloc = "engine" THEN Result(s, "throw", "alloc")
       ELSE IF s.reserveMemoryVecs_ # 0
       THEN IF alloc = "reserve"
            THEN Result([s EXCEPT !.index_ = e0], "throw", "alloc")
            ELSE Result([s EXCEPT !.index_ =
                            EngineSetPrecomputedCodes(
                                EngineReserveMemory(e0, s.reserveMemoryVecs_),
                                s.ivfpqConfig_.usePrecomputedTables)],
                        "ok", <<"pq.train", "new IVFPQ", "reserveMemory",
                                "setPrecomputedCodes">>)
       ELSE Result([s EXCEPT !.index_ =
                        EngineSetPrecomputedCodes(e0, s.ivfpqConfig_.usePrecomputedTables)],
                   "ok", <<"pq.train", "new IVFPQ", "setPrecomputedCodes">>)

train(s, n, seed, alloc) ==
    IF s.is_trained
    THEN IF /\ s.quantizer_.is_trained
            /\ s.quantizer_.ntotal = s.nlist_
            /\ s.index_ # NULL
         THEN Result(s, "ok", [coarse |-> 0, pq |-> 0, pqFirst |-> 0, steps |-> <<>>])
         ELSE Result(s, "abort", "assert")
    ELSE IF s.index_ # NULL
    THEN Result(s, "abort", "assert")
    ELSE LET s1 == trainQuantizer_(s, n)
             r == trainResidualQuantizer_(s1, n, seed, alloc)
         IN IF r.out # "ok" THEN r
            ELSE Result([r.s EXCEPT !.is_trained = TRUE], "ok",
                        [coarse |-> n, pq |-> PQSampleCount(n, s.bitsPerCode_),
                         pqFirst |-> 0,
                         steps |-> <<"trainQuantizer_">> \o r.ret \o <<"is_trained">>])

\* ------------------------------------- reserve / precomputed / reclaim / reset
reserveMemory(s, numVecs) ==
    LET s1 == [s EXCEPT !.reserveMemoryVecs_ = numVecs]
    IN Result(IF s.index_ # NULL
              THEN [s1 EXCEPT !.index_ = EngineReserveMemory(@, numVecs)]
              ELSE s1,
              "ok", "void")

setPrecomputedCodes(s, enable, smemPerBlock) ==
    LET s1 == [s EXCEPT !.ivfpqConfig_.usePrecomputedTables = enable]
        s2 == IF s.index_ # NULL
              THEN [s1 EXCEPT !.index_ = EngineSetPrecomputedCodes(@, enable)]
              ELSE s1
        v == verify(s2, smemPerBlock)
    IN Result(s2, IF v = "ok" THEN "ok" ELSE "throw", v)

reclaimMemory(s) ==
    IF s.index_ # NULL
    THEN Result([s EXCEPT !.index_ = EngineReclaimMemory(@)], "ok",
                EngineReclaimBytes(s.index_))
    ELSE Result(s, "ok", 0)

reset_KeepsTotal(s) ==
    IF s.index_ # NULL
    THEN Result([s EXCEPT !.index_ = EngineReset(@)], "ok", "void")
    ELSE Result(s, "ok", "void")

reset(s) ==
    IF s.index_ # NULL
    THEN Result([s EXCEPT !.index_ = EngineReset(@), !.ntotal = 0], "ok", "void")
    ELSE IF s.ntotal = 0 THEN Result(s, "ok", "void")
    ELSE Result(s, "abort", "assert")

\* -------------------------------------------------------------------- add
addImpl_CountsAll(s, n, x, xids) ==
    IF s.index_ = NULL \/ ~(n > 0) THEN Result(s, "abort", "assert")
    ELSE LET r == classifyAndAddVectors(s.index_, x, xids)
         IN Result([s EXCEPT !.index_ = r.e, !.ntotal = @ + n], "ok", r.added)

addImpl_(s, n, x, xids) ==
    IF s.index_ = NULL \/ ~(n > 0) THEN Result(s, "abort", "assert")
    ELSE LET r == classifyAndAddVectors(s.index_, x, xids)
         IN Result([s EXCEPT !.index_ = r.e, !.ntotal = @ + r.added], "ok", r.added)

\* --------------------------------------------------------------- copyFrom
\* GpuIndexIVF::copyFrom (the base import): dims, metric, nlist, nprobe, a new
\* coarse quantizer, and the trained flag and total count of the mirror.
GpuIndexIVF_copyFrom(s, m) ==
    LET s1 == [s EXCEPT !.d = m.d, !.metric_type = m.metric_type]
    IN IF ~(m.nlist > 0) THEN Result(s1, "abort", "assert")
       ELSE LET s2 == [s1 EXCEPT !.nlist_ = m.nlist, !.nprobe_ = m.nprobe,
                                 !.quantizer_ = [is_trained |-> TRUE, ntotal |-> 0]]
            IN IF ~m.is_trained
               THEN Result([s2 EXCEPT !.is_trained = FALSE, !.ntotal = 0], "ok", "void")
               ELSE LET s3 == [s2 EXCEPT !.is_trained = TRUE, !.ntotal = m.ntotal]
                    IN IF ~(m.quantizer_ntotal > 0)
                       THEN Result(s3, "abort", "assert")
                       ELSE Result([s3 EXCEPT !.quantizer_.ntotal = m.quantizer_ntotal],
                                   "ok", "void")

\* ids.size() <= std::numeric_limits<int>::max()
FitsInt(m, i) == i \notin m.oversize

\* The loop over index->codes: list i of the mirror is appended to list i of
\* the engine.
RECURSIVE copyListsShifted(_, _, _)
copyListsShifted(e, m, i) ==
    IF ~(i < Len(m.codes)) THEN [e |-> e, out |-> "ok", ret |-> "void"]
    ELSE LET codes == m.codes[i + 1]
             ids == m.ids[i + 1]
         IN IF FitsInt(m, i) /\ ~(Len(ids) * e.M = Len(codes))
            THEN [e |-> e, out |-> "abort", ret |-> "assert"]
            ELSE IF ~FitsInt(m, i)
            THEN [e |-> e, out |-> "throw", ret |-> "entries"]
            ELSE copyListsShifted(
                    addCodeVectorsFromCpu(e, (i + 1) % Len(m.codes), codes, ids, Len(ids)),
                    m, i + 1)

RECURSIVE copyLists_NoLengthCheck(_, _, _)
copyLists_NoLengthCheck(e, m, i) ==
    IF ~(i < Len(m.codes)) THEN [e |-> e, out |-> "ok", ret |-> "void"]
    ELSE LET codes == m.codes[i + 1]
             ids == m.ids[i + 1]
         IN IF ~FitsInt(m, i)
            THEN [e |-> e, out |-> "throw", ret |-> "entries"]
            ELSE copyLists_NoLengthCheck(
                    addCodeVectorsFromCpu(e, i, codes, ids, Len(ids)), m, i + 1)

RECURSIVE copyLists(_, _, _)
copyLists(e, m, i) ==
    IF ~(i < Len(m.codes)) THEN [e |-> e, out |-> "ok", ret |-> "void"]
    ELSE LET codes == m.codes[i + 1]
             ids == m.ids[i + 1]
         IN IF FitsInt(m, i) /\ ~(Len(ids) * e.M = Len(codes))
            THEN [e |-> e, out |-> "abort", ret |-> "assert"]
            ELSE IF ~FitsInt(m, i)
            THEN [e |-> e, out |-> "throw", ret |-> "entries"]
            ELSE copyLists(addCodeVectorsFromCpu(e, i, codes, ids, Len(ids)), m, i + 1)

\* what `delete index_` destroys: whether there was an engine, and how many
\* entries it held (a completed copyFrom reports it in ret)
Deleted(s) ==
    IF s.index_ = NULL THEN [engine |-> FALSE, entries |-> 0]
    ELSE [engine |-> TRUE, entries |-> EngineTotal(s.index_)]

copyFrom_KeepsEngine(s, m, smemPerBlock) ==
    IF ~(m.metric_type = METRIC_L2) THEN Result(s, "throw", "metric")
    ELSE
    LET b == GpuIndexIVF_copyFrom(s, m) IN
    IF b.out # "ok" THEN b
    ELSE
    LET s1 == [b.s EXCEPT !.subQuantizers_ = m.pq.M,
                          !.bitsPerCode_ = m.pq.nbits] IN
    IF ~(m.pq.byte_per_idx = 1 /\ m.by_residual /\ m.polysemous_ht = 0)
    THEN Result(s1, "abort", "assert")
    ELSE
    LET s2 == [s1 EXCEPT !.ivfpqConfig_.usePrecomputedTables =
                              (m.use_precomputed_table # 0)]
        v == verify(s2, smemPerBlock) IN
    IF v # "ok" THEN Result(s2, "throw", v)
    ELSE IF ~m.is_trained THEN Result(s2, "ok", Deleted(s))
    ELSE
    LET s3 == [s2 EXCEPT !.is_trained = TRUE] IN
    IF ~(Len(m.pq.centroids) > 0) THEN Result(s3, "abort", "assert")
    ELSE
    LET e0 == EngineSetPrecomputedCodes(
                  NewIVFPQ(s3.nlist_, s3.subQuantizers_, s3.bitsPerCode_,
                           m.pq.centroids, s3.ivfpqConfig_.indicesOptions),
                  s3.ivfpqConfig_.usePrecomputedTables)
        r == copyLists(e0, m, 0)
    IN Result([s3 EXCEPT !.index_ = r.e], r.out,
              IF r.out = "ok" THEN Deleted(s) ELSE r.ret)

copyFrom(s, m, smemPerBlock) ==
    IF ~(m.metric_type = METRIC_L2) THEN Result(s, "throw", "metric")
    ELSE
    LET b == GpuIndexIVF_copyFrom(s, m) IN
    IF b.out # "ok" THEN b
    ELSE
    LET s1 == [b.s EXCEPT !.index_ = NULL,
                          !.subQuantizers_ = m.pq.M,
                          !.bitsPerCode_ = m.pq.nbits] IN
    IF ~(m.pq.byte_per_idx = 1 /\ m.by_residual /\ m.polysemous_ht = 0)
    THEN Result(s1, "abort", "assert")
    ELSE
    LET s2 == [s1 EXCEPT !.ivfpqConfig_.usePrecomputedTables =
                              (m.use_precomputed_table # 0)]
        v == verify(s2, smemPerBlock) IN
    IF v # "ok" THEN Result(s2, "throw", v)
    ELSE IF ~m.is_trained THEN Result(s2, "ok", Deleted(s))
    ELSE
    LET s3 == [s2 EXCEPT !.is_trained = TRUE] IN
    IF ~(Len(m.pq.centroids) > 0) THEN Result(s3, "abort", "assert")
    ELSE
    LET e0 == EngineSetPrecomputedCodes(
                  NewIVFPQ(s3.nlist_, s3.subQuantizers_, s3.bitsPerCode_,
                           m.pq.centroids, s3.ivfpqConfig_.indicesOptions),
                  s3.ivfpqConfig_.usePrecomputedTables)
        r == copyLists(e0, m, 0)
    IN Result([s3 EXCEPT !.index_ = r.e], r.out,
              IF r.out = "ok" THEN Deleted(s) ELSE r.ret)

\* ----------------------------------------------------------------- copyTo
\* GpuIndexIVF::copyTo (the base export): count, dims, metric, trained flag,
\* nlist, nprobe, a copy of the coarse quantizer, and nlist empty id lists.
GpuIndexIVF_copyTo(s, m) ==
    [m EXCEPT !.ntotal = s.ntotal, !.d = s.d, !.metric_type = s.metric_type,
              !.is_trained = s.is_trained, !.nlist = s.nlist_,
              !.nprobe = s.nprobe_, !.quantizer_ntotal = s.quantizer_.ntotal,
              !.ids = EmptyLists(s.nlist_), !.oversize = {}]

\* faiss::ProductQuantizer(d, M, nbits): derived values, zero-filled centroids.
ProductQuantizer(D, M, nbits) ==
    [M |-> M, nbits |-> nbits, byte_per_idx |-> (nbits + 7) \div 8,
     centroids |-> <<0>>]

\* faiss::IndexIVFPQ::precompute_table: chooses the table type when it is 0.
precompute_table(m) ==
    IF m.use_precomputed_table = 0 THEN [m EXCEPT !.use_precomputed_table = 1] ELSE m

\* The list accessors: FAISS_ASSERT(index_), then a copy of what the engine
\* holds for list listId.
getListIndices(s, listId) ==
    IF s.index_ = NULL THEN Result(s, "abort", "assert")
    ELSE Result(s, "ok", EngineListIndices(s.index_, listId))

getListCodes(s, listId) ==
    IF s.index_ = NULL THEN Result(s, "abort", "assert")
    ELSE Result(s, "ok", EngineListCodes(s.index_, listId))

getListLength_ZeroWhenAbsent(s, listId) ==
    IF s.index_ = NULL THEN Result(s, "ok", 0)
    ELSE Result(s, "ok", EngineListLength(s.index_, listId))

getListLength(s, listId) ==
    IF s.index_ = NULL THEN Result(s, "abort", "assert")
    ELSE Result(s, "ok", EngineListLength(s.index_, listId))

copyTo_IgnoresIndicesOptions(s, m) ==
    LET m1 == GpuIndexIVF_copyTo(s, m)
        m2 == [m1 EXCEPT !.by_residual = TRUE, !.use_precomputed_table = 0,
                         !.code_size = s.subQuantizers_,
                         !.pq = ProductQuantizer(s.d, s.subQuantizers_, s.bitsPerCode_),
                         !.polysemous_ht = 0,
                         !.codes = EmptyLists(s.nlist_)]
    IN [m |-> m2, out |-> "ok"]

copyTo(s, m) ==
    IF ~(s.ivfpqConfig_.indicesOptions # INDICES_IVF) THEN [m |-> m, out |-> "throw"]
    ELSE
    LET m1 == GpuIndexIVF_copyTo(s, m)
        m2 == [m1 EXCEPT !.by_residual = TRUE, !.use_precomputed_table = 0,
                         !.code_size = s.subQuantizers_,
                         !.pq = ProductQuantizer(s.d, s.subQuantizers_, s.bitsPerCode_),
                         !.polysemous_ht = 0,
                         !.codes = EmptyLists(s.nlist_)]
    IN IF s.index_ # NULL
       THEN LET m3 == [m2 EXCEPT
                        !.ids = [i \in 1..s.nlist_ |-> getListIndices(s, i - 1).ret],
                        !.codes = [i \in 1..s.nlist_ |-> getListCodes(s, i - 1).ret],
                        !.pq.centroids = s.index_.pqCentroids]
            IN [m |-> IF s.ivfpqConfig_.usePrecomputedTables
                      THEN precompute_table(m3) ELSE m3,
                out |-> "ok"]
       ELSE [m |-> m2, out |-> "ok"]

\* ----------------------------------------------------------------- search
\* +infinity, and the label of an empty result slot
Infinity == 1000000
NoLabel == -1
\* labels under INDICES_IVF pack (list, offset)
IvfShift == 65536

CoarseDistance(e, q, listId) == (q - listId * Pow2(e.B)) * (q - listId * Pow2(e.B))

\* the nprobe lists nearest to q (ties: the lower list first)
ProbedLists(e, q, nprobe) ==
    LET L == 0..(Len(e.lists) - 1)
        before(j, i) == \/ CoarseDistance(e, q, j) < CoarseDistance(e, q, i)
                        \/ (CoarseDistance(e, q, j) = CoarseDistance(e, q, i) /\ j < i)
    IN {i \in L : Cardinality({j \in L : before(j, i)}) < nprobe}

\* entry `offset` of list listId as the query sees it
EntryCode(e, listId, offset) ==
    SubSeq(e.lists[listId + 1].codes, offset * e.M + 1, (offset + 1) * e.M)
EntryDistance(e, q, listId, offset) ==
    LET p == Decode(e, listId, EntryCode(e, listId, offset)) IN (q - p) * (q - p)
EntryLabel(e, listId, offset) ==
    IF e.indicesOptions = INDICES_IVF THEN listId * IvfShift + offset
    ELSE e.lists[listId + 1].ids[offset + 1]

Candidates(e, q, nprobe) ==
    UNION {{[list |-> l, offset |-> o,
             distance |-> EntryDistance(e, q, l, o),
             label |-> EntryLabel(e, l, o)] : o \in 0..(EngineListLength(e, l) - 1)} :
           l \in ProbedLists(e, q, nprobe)}

\* the order of the results: nearer first (ties: the lower list, then the
\* lower offset)
Nearer(c, c2) ==
    \/ c.distance < c2.distance
    \/ /\ c.distance = c2.distance
       /\ (c.list < c2.list \/ (c.list = c2.list /\ c.offset < c2.offset))

\* slot j of the result slots over the candidate entries cands
Slot(cands, j) ==
    IF j <= Cardinality(cands)
    THEN LET c == CHOOSE c1 \in cands :
                    Cardinality({c2 \in cands : Nearer(c2, c1)}) = j - 1
         IN [distance |-> c.distance, label |-> c.label]
    ELSE [distance |-> Infinity, label |-> NoLabel]

\* IVFPQ::query for one query vector: k slots, nearest first, sentinel-filled.
EngineQuery(e, q, nprobe, k) ==
    LET cands == Candidates(e, q, nprobe)
    IN [j \in 1..k |-> Slot(cands, j)]

\* x: the n query vectors; distances, labels: the caller's n-by-k buffers.
searchImpl_NoCopyBack(s, n, x, k, distances, labels) ==
    IF s.index_ = NULL \/ ~(n > 0) THEN Result(s, "abort", "assert")
    ELSE Result(s, "ok", [distances |-> distances, labels |-> labels])

searchImpl_(s, n, x, k, distances, labels) ==
    IF s.index_ = NULL \/ ~(n > 0) THEN Result(s, "abort", "assert")
    ELSE LET devX == x
             out == [i \in 1..n |-> EngineQuery(s.index_, devX[i], s.nprobe_, k)]
             devDistances == [i \in 1..n |-> [j \in 1..k |-> out[i][j].distance]]
             devLabels == [i \in 1..n |-> [j \in 1..k |-> out[i][j].label]]
         IN Result(s, "ok", [distances |-> devDistances, labels |-> devLabels])

\* ------------------------------------------------------- the caller's inputs
\* CPU indexes a caller may hand to copyFrom.
TrainedHost ==
    [BlankHost EXCEPT !.is_trained = TRUE, !.ntotal = 1,
                      !.quantizer_ntotal = 2, !.pq.centroids = <<2>>,
                      !.codes = [i \in 1..2 |-> IF i = 1 THEN <<1, 0>> ELSE <<>>],
                      !.ids = [i \in 1..2 |-> IF i = 1 THEN <<1>> ELSE <<>>]]

\* 5 dimensions per sub-quantizer: needs precomputed tables
PrecomputedHost ==
    [TrainedHost EXCEPT !.d = 5, !.pq.M = 1, !.code_size = 1,
                        !.use_precomputed_table = 1, !.nprobe = 2,
                        !.codes = [i \in 1..2 |-> IF i = 1 THEN <<1>> ELSE <<>>]]

\* 5 sub-quantizers: a code length the engine does not support
UnsupportedHost ==
    [TrainedHost EXCEPT !.d = 5, !.pq.M = 5, !.code_size = 5,
                        !.codes = [i \in 1..2 |-> IF i = 1 THEN <<1, 0, 1, 0, 1>> ELSE <<>>]]

InnerProductHost == [TrainedHost EXCEPT !.metric_type = METRIC_INNER_PRODUCT]
PolysemousHost == [TrainedHost EXCEPT !.polysemous_ht = 1]
NoCentroidsHost == [TrainedHost EXCEPT !.pq.centroids = <<>>]
OversizeHost == [TrainedHost EXCEPT !.oversize = {1}]
\* three code bytes for one id, with M = 2
MismatchedHost ==
    [TrainedHost EXCEPT !.codes = [i \in 1..2 |-> IF i = 1 THEN <<1, 0, 1>> ELSE <<>>]]

HostInputs ==
    {BlankHost, TrainedHost, PrecomputedHost, UnsupportedHost, InnerProductHost,
     PolysemousHost, NoCentroidsHost, OversizeHost, MismatchedHost}

Ids == {0, 1}
ReserveRequests == {0, 1}
TrainSizes == {100, 200}
TrainSeeds == {1}
SmemPerBlock == 49152

\* ----------------------------------------------------------------- actions
InitCfg(D, pre, opts) ==
    InitMembers(D, 2, IF D = 4 THEN 2 ELSE 1, 1, METRIC_L2,
                [usePrecomputedTables |-> pre, indicesOptions |-> opts,
                 useFloat16LookupTables |-> FALSE],
                SmemPerBlock)

\* (dims, usePrecomputedTables, indicesOptions) of the indexes constructed
CtorArgs ==
    ({4, 5} \X BOOLEAN \X {INDICES_CPU, INDICES_IVF})
        \cup ({4} \X {FALSE} \X {INDICES_32_BIT, INDICES_64_BIT})

Init == \E a \in CtorArgs : InitCfg(a[1], a[2], a[3])

Train ==
    /\ pc = "live"
    /\ \E n \in TrainSizes, seed \in TrainSeeds :
          Returns("train", n, train(Self, n, seed, "ok"))

CopyFrom ==
    /\ pc = "live"
    /\ \E m \in HostInputs \cup {mirror} :
          Returns("copyFrom", m, copyFrom(Self, m, smem))

CopyTo ==
    /\ pc = "live"
    /\ LET r == copyTo(Self, mirror)
       IN /\ mirror' = r.m
          /\ lastOp' = "copyTo" /\ args' = mirror /\ err' = r.out /\ ret' = "void"
    /\ UNCHANGED <<pc, obj, smem>>

ReserveMemory ==
    /\ pc = "live"
    /\ \E numVecs \in ReserveRequests :
          Returns("reserveMemory", numVecs, reserveMemory(Self, numVecs))

SetPrecomputedCodes ==
    /\ pc = "live"
    /\ \E enable \in BOOLEAN :
          Returns("setPrecomputedCodes", enable, setPrecomputedCodes(Self, enable, smem))

ReclaimMemory ==
    /\ pc = "live"
    /\ Returns("reclaimMemory", <<>>, reclaimMemory(Self))

Reset ==
    /\ pc = "live"
    /\ Returns("reset", <<>>, reset(Self))

Add ==
    /\ pc = "live"
    /\ \E n \in 1..MaxAdd :
          /\ ntotal + n <= MaxTotal
          /\ \E x \in [1..n -> Vecs \cup {NaN}], xids \in [1..n -> Ids] :
                Returns("add", [n |-> n, x |-> x, xids |-> xids],
                        addImpl_(Self, n, x, xids))

Search ==
    /\ pc = "live"
    /\ \E q \in Vecs, k \in 1..MaxK :
          Returns("search", [n |-> 1, x |-> <<q>>, k |-> k],
                  searchImpl_(Self, 1, <<q>>, k,
                              <<[j \in 1..k |-> 0]>>, <<[j \in 1..k |-> 0]>>))

\* listId ranges over the lists of the index
GetListLength ==
    /\ pc = "live"
    /\ \E listId \in 0..(nlist_ - 1) :
          Returns("getListLength", listId, getListLength(Self, listId))

GetListCodes ==
    /\ pc = "live"
    /\ \E listId \in 0..(nlist_ - 1) :
          Returns("getListCodes", listId, getListCodes(Self, listId))

GetListIndices ==
    /\ pc = "live"
    /\ \E listId \in 0..(nlist_ - 1) :
          Returns("getListIndices", listId, getListIndices(Self, listId))

Next ==
    \/ Construct
    \/ Train
    \/ CopyFrom
    \/ CopyTo
    \/ ReserveMemory
    \/ SetPrecomputedCodes
    \/ ReclaimMemory
    \/ Reset
    \/ Add

Spec == Init /\ [][Next]_vars

\* ------------------------------------------- specification: the search path
InitSearch == \E opts \in {INDICES_CPU, INDICES_IVF} : InitCfg(4, FALSE, opts)

NextSearch ==
    \/ Construct
    \/ Train
    \/ CopyFrom
    \/ Add
    \/ Search

SpecSearch == InitSearch /\ [][NextSearch]_vars

\* ------------------------- specification: training with allocation failures
\* How a device allocation can fail during the training of an untrained index.
AllocFailures == {"engine", "reserve"}

\* train() during which a device allocation fails: the construction of the
\* engine, or the reservation (made only when reserveMemoryVecs_ is not 0).
TrainAllocFails ==
    /\ pc = "live"
    /\ ~is_trained /\ index_ = NULL
    /\ \E n \in TrainSizes, seed \in TrainSeeds, alloc \in AllocFailures :
          /\ alloc = "reserve" => reserveMemoryVecs_ # 0
          /\ Returns("train", n, train(Self, n, seed, alloc))

NextTrain ==
    \/ Construct
    \/ Train
    \/ TrainAllocFails
    \/ ReserveMemory
    \/ SetPrecomputedCodes
    \/ CopyFrom
    \/ Reset

SpecTrain == Init /\ [][NextTrain]_vars

\* ------------------------------------ specification: the PQ training sample
\* training-set sizes around the caps 64 * 2^B (64 .. 16384)
WideTrainSizes == {0, 1, 63, 64, 65, 128, 129, 16384, 16385, 20000}

\* one sub-quantizer over 4 dimensions, every code width verifySettings_ accepts
InitCap ==
    \E B \in 0..MaxBitsPerCode :
        InitMembers(4, 2, 1, B, METRIC_L2,
                    [usePrecomputedTables |-> FALSE, indicesOptions |-> INDICES_CPU,
                     useFloat16LookupTables |-> FALSE],
                    SmemPerBlock)

TrainWide ==
    /\ pc = "live"
    /\ \E n \in WideTrainSizes, seed \in TrainSeeds :
          Returns("train", n, train(Self, n, seed, "ok"))

NextCap ==
    \/ Construct
    \/ TrainWide

SpecCap == InitCap /\ [][NextCap]_vars

\* ------------------------------ specification: the data, import and export
NextData ==
    \/ Construct
    \/ Train
    \/ Add
    \/ ReserveMemory
    \/ CopyFrom
    \/ CopyTo

SpecData == Init /\ [][NextData]_vars

\* ------------------------------------- specification: the count of entries
\* mirrors that copyFrom accepts whatever the index was before
AcceptedHosts == {BlankHost, TrainedHost, PrecomputedHost}

CopyFromAccepted ==
    /\ pc = "live"
    /\ \E m \in AcceptedHosts :
          Returns("copyFrom", m, copyFrom(Self, m, smem))

NextCount ==
    \/ Construct
    \/ Train
    \/ Add
    \/ Reset
    \/ ReclaimMemory
    \/ CopyFromAccepted

SpecCount == Init /\ [][NextCount]_vars

\* ------------------------------------- specification: the list accessors
NextLists ==
    \/ Construct
    \/ Train
    \/ CopyFrom
    \/ Add
    \/ Reset
    \/ GetListLength
    \/ GetListCodes
    \/ GetListIndices

SpecLists == Init /\ [][NextLists]_vars

\* ------------------------------------------------------------------ claims
AllListsEmpty(e) == \A i \in 1..Len(e.lists) : e.lists[i].codes = <<>> /\ e.lists[i].ids = <<>>

\* C2: in every state of a live index, whatever calls came before and however
\* they ended, the engine is present iff the trained flag is true.
C2_EngineIffTrained == pc = "live" => ((index_ # NULL) <=> is_trained)

\* C3: train() on an index whose trained flag is set returns without error
\* and leaves the engine (its lists and PQ centroids) and the total count
\* unchanged.
C3_TrainIdempotent ==
    [][(pc = "live" /\ is_trained /\ lastOp' = "train")
          => (err' = "ok" /\ index_' = index_ /\ ntotal' = ntotal)]_vars

\* C4: reset() on an index whose trained flag is set leaves every list empty
\* and the total count 0, keeps the trained flag and the engine with its
\* centroids, and an add right after it succeeds.
C4_ResetKeepsEngine ==
    [][(pc = "live" /\ is_trained /\ lastOp' = "reset")
          => /\ err' = "ok"
             /\ is_trained' /\ ntotal' = 0
             /\ index_' # NULL /\ index_ # NULL
             /\ AllListsEmpty(index_')
             /\ index_'.pqCentroids = index_.pqCentroids
             /\ addImpl_(Self', 1, <<0>>, <<0>>).out = "ok"]_vars

\* C5: an add(n, x, ids) that the engine completes raises the total count by
\* the returned insertedCount, 0 <= insertedCount <= n, which is the number of
\* valid vectors; excluded vectors change neither the count nor any list.
C5_AddCounts ==
    [][(pc = "live" /\ is_trained /\ lastOp' = "add" /\ err' = "ok")
          => LET n == args'.n
                 valid == Cardinality({i \in 1..n : isValid(args'.x[i])})
             IN /\ ret' \in 0..n
                /\ ret' = valid
                /\ ntotal' = ntotal + ret'
                /\ EngineTotal(index_') = EngineTotal(index_) + ret'
                /\ (valid = 0 => index_' = index_)]_vars

\* an add of one excluded vector to an index that holds one entry
C5_Witness ==
    /\ lastOp = "add" /\ err = "ok" /\ ~isValid(args.x[1])
    /\ ntotal = 1 /\ EngineTotal(index_) = 1

\* C6: exportTo(mirror) and then importFrom(mirror), on a trained index that
\* keeps ids, ends with the same lists (codes, ids), PQ centroids, nlist and
\* dims as before the export.
C6_RoundTrip ==
    [][(/\ lastOp = "copyTo" /\ err = "ok" /\ is_trained /\ index_ # NULL
        /\ lastOp' = "copyFrom" /\ args' = mirror)
          => /\ err' = "ok"
             /\ index_' # NULL
             /\ index_'.lists = index_.lists
             /\ index_'.pqCentroids = index_.pqCentroids
             /\ nlist_' = nlist_ /\ d' = d]_vars

\* the number of entries in the lists a query examines
ProbedCount(e, q, nprobe) ==
    SumSeq([i \in 1..Len(e.lists) |->
               IF (i - 1) \in ProbedLists(e, q, nprobe)
               THEN EngineListLength(e, i - 1) ELSE 0])

\* C7: a completed search(n, x, k) leaves, for each query, exactly k slots in
\* non-decreasing distance; the slots past the entries of the nprobe examined
\* lists hold (label -1, distance +infinity); and what the caller sees is
\* what the engine produced.
C7_SearchResults ==
    (lastOp = "search" /\ err = "ok") =>
        /\ Len(ret.distances) = args.n /\ Len(ret.labels) = args.n
        /\ \A i \in 1..args.n :
            LET k == args.k
                dist == ret.distances[i]
                lab == ret.labels[i]
                found == ProbedCount(index_, args.x[i], nprobe_)
                engine == EngineQuery(index_, args.x[i], nprobe_, k)
            IN /\ Len(dist) = k /\ Len(lab) = k
               /\ \A j \in 1..(k - 1) : dist[j] <= dist[j + 1]
               /\ \A j \in 1..k :
                    IF j > found
                    THEN dist[j] = Infinity /\ lab[j] = NoLabel
                    ELSE dist[j] < Infinity
               /\ \A j \in 1..k :
                    dist[j] = engine[j].distance /\ lab[j] = engine[j].label

\* a search with k = 2 that found one entry: one result, one sentinel slot
C7_Witness ==
    /\ lastOp = "search" /\ err = "ok" /\ args.k = 2
    /\ ProbedCount(index_, args.x[1], nprobe_) = 1
    /\ ret.distances[1][1] < Infinity /\ ret.distances[1][2] = Infinity
    /\ ret.labels[1][2] = NoLabel

\* C8: a failed importFrom leaves engine, lists, M, B, the precomputed-table
\* flag, the trained flag and the total count as they were.
C8_ImportFailsBeforeMutation ==
    [][(pc = "live" /\ lastOp' = "copyFrom" /\ err' # "ok")
          => /\ index_' = index_
             /\ subQuantizers_' = subQuantizers_ /\ bitsPerCode_' = bitsPerCode_
             /\ ivfpqConfig_' = ivfpqConfig_
             /\ is_trained' = is_trained /\ ntotal' = ntotal]_vars

\* C9: a setPrecomputedCodes(enable) that verify rejects leaves the index's
\* flag and the engine's setting as they were.
C9_RejectedFlagNotApplied ==
    [][(pc = "live" /\ lastOp' = "setPrecomputedCodes" /\ err' = "throw")
          => /\ ivfpqConfig_'.usePrecomputedTables = ivfpqConfig_.usePrecomputedTables
             /\ index_' = index_]_vars

\* C10: exportTo on an index that discards ids (INDICES_IVF) throws and
\* leaves the mirror untouched; with every other mode the export proceeds.
C10_ExportNeedsIds ==
    [][(pc = "live" /\ lastOp' = "copyTo")
          => IF ivfpqConfig_.indicesOptions = INDICES_IVF
             THEN err' = "throw" /\ mirror' = mirror
             ELSE /\ err' = "ok"
                  /\ mirror'.nlist = nlist_ /\ mirror'.d = d
                  /\ mirror'.code_size = subQuantizers_]_vars

\* a refused export from a trained index that holds data
C10_Witness ==
    /\ lastOp = "copyTo" /\ err = "throw"
    /\ ivfpqConfig_.indicesOptions = INDICES_IVF
    /\ is_trained /\ index_ # NULL /\ ntotal > 0
    /\ mirror = DefaultHost

\* C11: getListLength(i), getListCodes(i) and getListIndices(i) fail whenever
\* the engine is absent (trained flag set or not) and return the current
\* contents of list i when it is present; in both cases every field of the
\* index is as it was before the call.
C11_ListAccessors ==
    [][(pc = "live" /\ lastOp' \in {"getListLength", "getListCodes", "getListIndices"})
          => /\ d' = d /\ metric_type' = metric_type /\ is_trained' = is_trained
             /\ ntotal' = ntotal /\ nlist_' = nlist_ /\ nprobe_' = nprobe_
             /\ quantizer_' = quantizer_ /\ ivfpqConfig_' = ivfpqConfig_
             /\ subQuantizers_' = subQuantizers_ /\ bitsPerCode_' = bitsPerCode_
             /\ reserveMemoryVecs_' = reserveMemoryVecs_ /\ index_' = index_
             /\ IF index_ = NULL
                THEN err' # "ok"
                ELSE /\ err' = "ok"
                     /\ lastOp' = "getListLength" =>
                            ret' * index_.M = Len(index_.lists[args' + 1].codes)
                     /\ lastOp' = "getListCodes" =>
                            ret' = index_.lists[args' + 1].codes
                     /\ lastOp' = "getListIndices" =>
                            ret' = index_.lists[args' + 1].ids]_vars

\* getListLength on an index whose trained flag is set and whose engine is
\* absent, and on one that holds an entry in the list asked for
C11_Witness ==
    lastOp = "getListLength" /\ err # "ok" /\ is_trained /\ index_ = NULL

C11_WitnessPresent ==
    /\ lastOp = "getListLength" /\ err = "ok" /\ index_ # NULL
    /\ ret = 1 /\ Len(index_.lists[args + 1].codes) = index_.M

\* C12: a completed importFrom of an untrained mirror, into any index (one
\* that was trained and holds data included), leaves the engine unset, the
\* trained flag false and the total count 0, and a train() right after it
\* runs the full training: no assertion fails, and it ends with the engine
\* present, every list empty, and the trained flag true.
C12_UntrainedImportThenTrain ==
    [][(pc = "live" /\ lastOp' = "copyFrom" /\ err' = "ok" /\ ~args'.is_trained)
          => /\ index_' = NULL /\ ~is_trained' /\ ntotal' = 0
             /\ \A n \in TrainSizes, seed \in TrainSeeds :
                   LET t == train(Self', n, seed, "ok")
                   IN /\ t.out = "ok"
                      /\ t.s.is_trained /\ t.s.index_ # NULL
                      /\ AllListsEmpty(t.s.index_)
                      /\ t.s.quantizer_.ntotal = nlist_']_vars

\* an untrained mirror imported into a trained index that held an entry
C12_Witness ==
    /\ lastOp = "copyFrom" /\ err = "ok" /\ ~args.is_trained
    /\ ret.engine /\ ret.entries > 0
    /\ index_ = NULL /\ ~is_trained

\* C13 (as stated): a completed importFrom of a trained mirror leaves, in
\* every list i, exactly the mirror's codes and ids for list i.
C13_AsStated ==
    [][(pc = "live" /\ lastOp' = "copyFrom" /\ err' = "ok" /\ args'.is_trained)
          => /\ index_' # NULL
             /\ Len(index_'.lists) = args'.nlist
             /\ \A i \in 1..args'.nlist :
                   /\ index_'.lists[i].codes = args'.codes[i]
                   /\ index_'.lists[i].ids = args'.ids[i]]_vars

\* C13 (amended): a completed importFrom of a trained mirror leaves a new
\* engine built from the mirror alone: it has the mirror's number of lists,
\* list i holds exactly the mirror's codes for list i, and the mirror's ids
\* when the index retains ids (none under INDICES_IVF); the centroids are the
\* mirror's, and nothing of the engine deleted by the call (entries,
\* reservation) is left.
C13_WholesaleReplace ==
    [][(pc = "live" /\ lastOp' = "copyFrom" /\ err' = "ok" /\ args'.is_trained)
          => /\ index_' # NULL
             /\ Len(index_'.lists) = args'.nlist
             /\ \A i \in 1..args'.nlist :
                   /\ index_'.lists[i].codes = args'.codes[i]
                   /\ index_'.lists[i].ids =
                         (IF ivfpqConfig_'.indicesOptions = INDICES_IVF
                          THEN <<>> ELSE args'.ids[i])
             /\ index_'.pqCentroids = args'.pq.centroids
             /\ index_'.M = args'.pq.M /\ index_'.B = args'.pq.nbits
             /\ index_'.reserved = 0
             /\ ntotal' = args'.ntotal]_vars

\* a trained mirror imported into an index that held two entries: one is left,
\* the mirror's
C13_Witness ==
    /\ lastOp = "copyFrom" /\ err = "ok" /\ args.is_trained
    /\ ret.engine /\ ret.entries = 2
    /\ index_ # NULL /\ EngineTotal(index_) = 1 /\ ntotal = 1

\* C14: verify() reports the first violated constraint in the order nlist > 0,
\* B <= 8, D % M = 0, M supported, scratch fits, D/M supported unless
\* precomputed tables, metric squared Euclidean; whatever later constraints
\* are violated as well makes no difference.
C14_FirstViolation ==
    lastOp = "construct" =>
        LET checks ==
              << <<"nlist", nlist_ > 0>>,
                 <<"bitsPerCode", bitsPerCode_ <= 8>>,
                 <<"divisor", d % subQuantizers_ = 0>>,
                 <<"codeLength", subQuantizers_ \in SupportedPQCodeLengths>>,
                 <<"smem", lookupTableSize(ivfpqConfig_) * subQuantizers_
                               * Pow2(bitsPerCode_) <= smem>>,
                 <<"subDim", ivfpqConfig_.usePrecomputedTables
                             \/ (d \div subQuantizers_) \in SupportedNoPrecomputedSubDimSizes>>,
                 <<"metric", metric_type = METRIC_L2>> >>
            violated == {i \in 1..Len(checks) : ~checks[i][2]}
        IN IF violated = {}
           THEN err = "ok" /\ ret = "ok"
           ELSE /\ err = "throw"
                /\ \E i \in violated :
                      /\ \A j \in violated : i <= j
                      /\ ret = checks[i][1]

\* a configuration that violates B <= 8, D % M = 0, the supported code lengths
\* and the metric at once: the bits constraint is the one reported
C14_Witness ==
    /\ lastOp = "construct" /\ err = "throw" /\ ret = "bitsPerCode"
    /\ nlist_ > 0 /\ bitsPerCode_ > 8
    /\ d % subQuantizers_ # 0
    /\ subQuantizers_ \notin SupportedPQCodeLengths
    /\ metric_type # METRIC_L2

\* C15: a train() on an untrained index that fails part-way with a device
\* allocation error leaves the index as it was (coarse quantizer as before,
\* engine absent, trained flag false), and a train() retried right after it
\* is accepted.
C15_FailedTrainLeavesState ==
    [][(pc = "live" /\ ~is_trained /\ index_ = NULL
        /\ lastOp' = "train" /\ err' = "throw")
          => /\ quantizer_' = quantizer_
             /\ index_' = NULL /\ ~is_trained'
             /\ \A seed \in TrainSeeds :
                   train(Self', args', seed, "ok").out = "ok"]_vars

\* C16: a successful train() on an untrained index trains the coarse
\* quantizer, trains the PQ, creates the engine, applies the reservation last
\* requested (only if it is not 0), applies the precomputed-table flag, and
\* then sets the trained flag, in this order: a train() that fails at the
\* creation has the coarse quantizer trained and nothing later, one that
\* fails at the reservation has the engine and nothing later.  Only
\* reserveMemory changes the recorded request, so none is lost.
C16_TrainOrder ==
    [][/\ (pc = "live" /\ ~is_trained /\ index_ = NULL /\ lastOp' = "train")
          => IF err' = "ok"
             THEN /\ is_trained' /\ index_' # NULL
                  /\ quantizer_'.ntotal = nlist_
                  /\ index_'.reserved = reserveMemoryVecs_
                  /\ index_'.precomputedCodes = ivfpqConfig_.usePrecomputedTables
                  /\ ret'.steps =
                        (IF reserveMemoryVecs_ > 0
                         THEN <<"trainQuantizer_", "pq.train", "new IVFPQ",
                                "reserveMemory", "setPrecomputedCodes", "is_trained">>
                         ELSE <<"trainQuantizer_", "pq.train", "new IVFPQ",
                                "setPrecomputedCodes", "is_trained">>)
             ELSE /\ ~is_trained'
                  /\ quantizer_'.ntotal = nlist_
                  /\ index_' # NULL =>
                        /\ reserveMemoryVecs_ > 0
                        /\ index_'.reserved = 0
                        /\ ~index_'.precomputedCodes
       /\ (pc = "live" /\ lastOp' = "reserveMemory") => reserveMemoryVecs_' = args'
       /\ (pc = "live" /\ lastOp' # "reserveMemory")
             => reserveMemoryVecs_' = reserveMemoryVecs_]_vars

\* a train() that applied a reservation requested while the engine was
\* absent, on an index with precomputed tables
C16_Witness ==
    /\ lastOp = "train" /\ err = "ok" /\ is_trained /\ index_ # NULL
    /\ reserveMemoryVecs_ = 1 /\ index_.reserved = 1
    /\ ivfpqConfig_.usePrecomputedTables /\ index_.precomputedCodes
    /\ Len(ret.steps) = 6

\* C17: train(n, x) on an untrained index with B bits per code (0..8) gives
\* the coarse-quantizer training all n vectors, and the residual computation
\* and PQ training the first min(n, 64 * 2^B) vectors of x.
C17_PQSampleCap ==
    [][(pc = "live" /\ ~is_trained /\ lastOp' = "train" /\ err' = "ok")
          => LET n == args'
                 cap == 64 * (2 ^ bitsPerCode_)
             IN /\ bitsPerCode_ \in 0..8
                /\ ret'.coarse = n
                /\ ret'.pq = (IF n <= cap THEN n ELSE cap)
                /\ ret'.pqFirst = 0]_vars

\* 20000 vectors and 8 bits per code: 16384 of them train the PQ
C17_Witness ==
    /\ lastOp = "train" /\ err = "ok" /\ bitsPerCode_ = 8 /\ args = 20000
    /\ ret.coarse = 20000 /\ ret.pq = 16384

\* the lists of a mirror agree: codes of list i = M bytes per id of list i
MirrorListsAgree(m) ==
    \A i \in 1..Len(m.codes) : Len(m.codes[i]) = m.pq.M * Len(m.ids[i])

\* C18 (as stated): whenever the engine is present each list has M code bytes
\* per id and per entry; so has each list of a mirror that exportTo produced;
\* and an importFrom of a trained mirror completes only if every list of the
\* mirror has M code bytes per id and at most 2^31 - 1 ids.
C18_AsStated ==
    pc = "live" =>
        /\ index_ # NULL =>
              \A i \in 1..Len(index_.lists) :
                 /\ Len(index_.lists[i].codes) = subQuantizers_ * Len(index_.lists[i].ids)
                 /\ Len(index_.lists[i].codes)
                        = subQuantizers_ * getListLength(Self, i - 1).ret
        /\ (lastOp = "copyTo" /\ err = "ok") => MirrorListsAgree(mirror)
        /\ (lastOp = "copyFrom" /\ err = "ok" /\ args.is_trained) =>
              /\ MirrorListsAgree(args)
              /\ \A i \in 1..Len(args.codes) : FitsInt(args, i - 1)

\* C18 (amended): the same, with the ids of an engine list counted only when
\* the index retains ids (under INDICES_IVF the engine keeps none).
C18_CodesPerEntry ==
    pc = "live" =>
        /\ index_ # NULL =>
              /\ index_.M = subQuantizers_
              /\ \A i \in 1..Len(index_.lists) :
                    /\ Len(index_.lists[i].codes)
                          = subQuantizers_ * getListLength(Self, i - 1).ret
                    /\ Len(index_.lists[i].ids) =
                          (IF ivfpqConfig_.indicesOptions = INDICES_IVF THEN 0
                           ELSE getListLength(Self, i - 1).ret)
        /\ (lastOp = "copyTo" /\ err = "ok") =>
              /\ MirrorListsAgree(mirror)
              /\ Len(mirror.codes) = nlist_ /\ mirror.pq.M = subQuantizers_
        /\ (lastOp = "copyFrom" /\ err = "ok" /\ args.is_trained) =>
              /\ MirrorListsAgree(args)
              /\ \A i \in 1..Len(args.codes) : FitsInt(args, i - 1)

\* an export of an index that holds two entries
C18_Witness ==
    /\ lastOp = "copyTo" /\ err = "ok" /\ index_ # NULL /\ ntotal = 2
    /\ SumSeq([i \in 1..Len(mirror.ids) |-> Len(mirror.ids[i])]) = 2
    /\ SumSeq([i \in 1..Len(mirror.codes) |-> Len(mirror.codes[i])]) = 2 * subQuantizers_

\* C19: after any sequence of train, add, reset, reclaimMemory and importFrom
\* calls in which every importFrom completed, the total count is the sum of
\* getListLength(i) over the lists 0 .. nlist - 1 whenever the engine is
\* present.
C19_TotalIsSumOfLists ==
    /\ lastOp = "copyFrom" => err = "ok"
    /\ (pc = "live" /\ index_ # NULL) =>
          ntotal = SumSeq([i \in 1..nlist_ |-> getListLength(Self, i - 1).ret])

\* two entries, one in each list, after a reclaimMemory
C19_Witness ==
    /\ lastOp = "reclaimMemory" /\ err = "ok" /\ index_ # NULL /\ ntotal = 2
    /\ getListLength(Self, 0).ret = 1 /\ getListLength(Self, 1).ret = 1

\* C20: in every state of a live index without an engine the total count is
\* 0, so that reset()'s FAISS_ASSERT(ntotal == 0) cannot fail.
C20_AbsentMeansEmpty ==
    pc = "live" => (index_ = NULL => ntotal = 0)

====
